---- MODULE Spec2Model ----
(***************************************************************************)
(* Model of plugins/audit/csrf.py (w3af): the csrf audit plugin.           *)
(*                                                                         *)
(* A string is a sequence of one-character strings, so that len(), the     *)
(* `in' substring test and the per-character loop of is_csrf_token are     *)
(* computed the way the code computes them.                                *)
(*                                                                         *)
(* Two specifications:                                                     *)
(*   Spec           one call of audit(freq, orig_response); the sender's   *)
(*                  answers to the probes are nondeterministic.            *)
(*   SpecClassifier one call of is_csrf_token(key, value).                 *)
(***************************************************************************)
EXTENDS Integers, Sequences, FiniteSets, TLC

VARIABLES
    freq,           \* the FuzzableRequest given to audit()
    cookies,        \* self._uri_opener.get_cookies(): the cookies' domains
    strict_mode,    \* self._strict_mode
    orig_response,  \* the original response given to audit()
    pc,             \* position of audit(): start, wait_origin, wait_token, done, raised, idle
    exc,            \* the exception that left audit(), "none" if none
    sent,           \* the mutants handed to self._uri_opener.send_mutant, in order
    origin_resp,    \* answer of the sender to the Referer mutant
    located,        \* outcome of _find_csrf_token: "no", "returned", "raised"
    tokens,         \* the dict _find_csrf_token returned
    mutants,        \* the list create_mutants returned in _is_token_checked
    token_resps,    \* answers of the sender to the token mutants, in order
    kb,             \* findings appended to the knowledge base
    key_in,         \* is_csrf_token call: key
    value_in,       \* is_csrf_token call: value
    cls_ret         \* is_csrf_token call: "unset", "True", "False", "ValueError"

vars == <<freq, cookies, strict_mode, orig_response, pc, exc, sent, origin_resp,
          located, tokens, mutants, token_resps, kb, key_in, value_in, cls_ret>>

audit_vars == <<freq, cookies, strict_mode, orig_response, pc, exc, sent,
                origin_resp, located, tokens, mutants, token_resps, kb>>

cls_vars == <<key_in, value_in, cls_ret>>

----------------------------------------------------------------------------
(* Bounds of the model *)

\* values in the request's data container, over all its parameters
MaxVals == 3
\* cookies in the cookie jar
MaxCookies == 2
\* classifier inputs: a free prefix of at most MaxHead characters ...
MaxHead == 3
\* ... followed by at most MaxPad repetitions of one character
MaxPad == 10

----------------------------------------------------------------------------
(* Strings *)

DigitChars == {"0", "1", "2", "3", "4", "5", "6", "7", "8", "9"}
LowerChars == {"a", "b", "c", "d", "e", "f", "g", "h", "i", "j", "k", "l", "m",
               "n", "o", "p", "q", "r", "s", "t", "u", "v", "w", "x", "y", "z"}
UpperChars == {"A", "B", "C", "D", "E", "F", "G", "H", "I", "J", "K", "L", "M",
               "N", "O", "P", "Q", "R", "S", "T", "U", "V", "W", "X", "Y", "Z"}

\* str.isdigit(), str.islower(), str.isupper() on one character
isdigit(c) == c \in DigitChars
islower(c) == c \in LowerChars
isupper(c) == c \in UpperChars

\* Python's `s in t' on strings: s occurs as a contiguous substring of t
StrIn(s, t) ==
    \E i \in 0..(Len(t) - Len(s)) : SubSeq(t, i + 1, i + Len(s)) = s

\* `x in list'
InList(x, list) == \E i \in DOMAIN list : list[i] = x

\* c repeated n times
Repeat(c, n) == [i \in 1..n |-> c]

\* all sequences over S of length at most n
SeqsUpTo(S, n) == UNION {[1..k -> S] : k \in 0..n}

----------------------------------------------------------------------------
(* is_csrf_token *)

COMMON_CSRF_NAMES == <<"csrf_token", "token", "csrf">>

min_length == 4
min_entropy == 36

\* math.log(total) / math.log(2) in millionths, for the alphabet sizes
\* 10*digit + 26*upper + 26*lower can take; total = 0 has no logarithm
Log2Micro(total) ==
    CASE total = 10 -> 3321928
      [] total = 26 -> 4700439
      [] total = 36 -> 5169925
      [] total = 52 -> 5700439
      [] total = 62 -> 5954196

\* floor(log(total) * (len(value) / log(2)))
entropy_bits(total, length) == (length * Log2Micro(total)) \div 1000000

\* the flags of the per-character loop
total_digit(value) == \E i \in DOMAIN value : isdigit(value[i])
total_lower(value) ==
    \E i \in DOMAIN value : ~isdigit(value[i]) /\ islower(value[i])
total_upper(value) ==
    \E i \in DOMAIN value :
        ~isdigit(value[i]) /\ ~islower(value[i]) /\ isupper(value[i])
total_spaces(value) ==
    \E i \in DOMAIN value :
        /\ ~isdigit(value[i]) /\ ~islower(value[i]) /\ ~isupper(value[i])
        /\ value[i] = " "

Bit(b) == IF b THEN 1 ELSE 0

\* total = int(total_digit) * 10 + int(total_upper) * 26 + int(total_lower) * 26
alphabet_total(value) ==
    Bit(total_digit(value)) * 10 + Bit(total_upper(value)) * 26
        + Bit(total_lower(value)) * 26

\* drops the `not total_spaces' test of the final condition
is_csrf_token_spaces_ok(key, value) ==
    IF InList(key, COMMON_CSRF_NAMES) /\ value # <<>> THEN "True"
    ELSE IF Len(value) < min_length THEN "False"
    ELSE IF alphabet_total(value) = 0 THEN "ValueError"
    ELSE IF entropy_bits(alphabet_total(value), Len(value)) >= min_entropy
            /\ total_digit(value)
         THEN "True"
         ELSE "False"

\* compares the entropy with > instead of >=
is_csrf_token_gt(key, value) ==
    IF InList(key, COMMON_CSRF_NAMES) /\ value # <<>> THEN "True"
    ELSE IF Len(value) < min_length THEN "False"
    ELSE IF alphabet_total(value) = 0 THEN "ValueError"
    ELSE IF entropy_bits(alphabet_total(value), Len(value)) > min_entropy
            /\ ~total_spaces(value) /\ total_digit(value)
         THEN "True"
         ELSE "False"

\* is_csrf_token(key, value): "True", "False", or "ValueError" when
\* math.log(0) raises (no digit, no lowercase and no uppercase character)
is_csrf_token(key, value) ==
    IF InList(key, COMMON_CSRF_NAMES) /\ value # <<>> THEN "True"
    ELSE IF Len(value) < min_length THEN "False"
    ELSE IF alphabet_total(value) = 0 THEN "ValueError"
    ELSE IF entropy_bits(alphabet_total(value), Len(value)) >= min_entropy
            /\ ~total_spaces(value) /\ total_digit(value)
         THEN "True"
         ELSE "False"

----------------------------------------------------------------------------
(* _is_resp_equal *)

\* self._equal_limit = 0.95, in percent
_equal_limit == 95

\* relative_distance_boolean(a, b, limit): the bodies are at least `limit'
\* similar.  Bodies are B0 (the original body), B1 (a body that differs from
\* B0 in incidental content only) and B2 (a materially different body).
body_similarity(a, b) ==
    IF a = b THEN 100
    ELSE IF {a, b} = {"B0", "B1"} THEN 97
    ELSE 40

relative_distance_boolean(a, b, limit) == body_similarity(a, b) >= limit

_is_resp_equal(res1, res2) ==
    IF res1.code # res2.code THEN FALSE
    ELSE IF ~relative_distance_boolean(res1.body, res2.body, _equal_limit)
         THEN FALSE
         ELSE TRUE

----------------------------------------------------------------------------
(* _is_suitable *)

\* skips the payload test
_is_suitable_no_payload_test(fr, cookie_jar, strict) ==
    IF ~(\E cookie \in cookie_jar : StrIn(fr.domain, cookie)) THEN FALSE
    ELSE IF fr.method = "GET" /\ strict THEN FALSE
    ELSE TRUE

\* for cookie in get_cookies(): if freq domain in cookie.domain: break
\* else: return False; then the strict-mode test and the payload test
_is_suitable(fr, cookie_jar, strict) ==
    IF ~(\E cookie \in cookie_jar : StrIn(fr.domain, cookie)) THEN FALSE
    ELSE IF fr.method = "GET" /\ strict THEN FALSE
    ELSE IF ~fr.has_query_string /\ fr.dc = <<>> THEN FALSE
    ELSE TRUE

----------------------------------------------------------------------------
(* _is_origin_checked *)

fake_ref == "http://www.w3af.org/"

\* HeadersMutant(freq.copy()) with Referer set to fake_ref
referer_mutant(fr) ==
    [kind |-> "headers", var |-> "Referer", index |-> 0,
     mod_value |-> fake_ref, dc |-> fr.dc]

\* never reports the origin as checked
_is_origin_checked_never(orig, mutant_response) == FALSE

\* the part of _is_origin_checked after send_mutant returned
_is_origin_checked(orig, mutant_response) ==
    IF ~_is_resp_equal(orig, mutant_response) THEN TRUE ELSE FALSE

----------------------------------------------------------------------------
(* _find_csrf_token *)

\* the inner loop over enumerate(dc[param_name]), from position i on:
\* stops at the first value is_csrf_token accepts (break) or faults on
RECURSIVE scan_values(_, _, _)
scan_values(param_name, values, i) ==
    IF i > Len(values) THEN [kind |-> "none", index |-> 0, value |-> <<>>]
    ELSE LET r == is_csrf_token(param_name, values[i])
         IN  IF r = "ValueError"
                 THEN [kind |-> "raise", index |-> i - 1, value |-> values[i]]
             ELSE IF r = "True"
                 THEN [kind |-> "hit", index |-> i - 1, value |-> values[i]]
             ELSE scan_values(param_name, values, i + 1)

\* [raised, result]: result[param_name] = {element_index: element_value},
\* element_index counted from 0 as enumerate() does
_find_csrf_token(dc) ==
    LET scans == [p \in DOMAIN dc |-> scan_values(dc[p].name, dc[p].vals, 1)]
        hit == {p \in DOMAIN dc : scans[p].kind = "hit"}
    IN  IF \E p \in DOMAIN dc : scans[p].kind = "raise"
        THEN [raised |-> TRUE, result |-> <<>>]
        ELSE [raised |-> FALSE,
              result |-> [n \in {dc[p].name : p \in hit} |->
                            LET p == CHOOSE q \in hit : dc[q].name = n
                            IN  (scans[p].index :> scans[p].value)]]

----------------------------------------------------------------------------
(* _is_token_checked *)

\* dc with value number i (from 1) of parameter number p replaced by str
set_value(dc, p, i, str) ==
    [dc EXCEPT ![p] = [name |-> dc[p].name,
                       vals |-> [dc[p].vals EXCEPT ![i] = str]]]

\* create_mutants(freq, mutant_str_list, append=False, fuzzable_param_list):
\* one mutant per string for every value of every parameter named in
\* fuzzable_param_list, in the order of the data container; the call passes
\* parameter names only
RECURSIVE create_mutants_worker(_, _, _, _, _)
create_mutants_worker(dc, mutant_str_list, fuzzable_param_list, p, i) ==
    IF p > Len(dc) THEN <<>>
    ELSE IF dc[p].name \notin fuzzable_param_list \/ i > Len(dc[p].vals)
         THEN create_mutants_worker(dc, mutant_str_list, fuzzable_param_list,
                                    p + 1, 1)
    ELSE [k \in DOMAIN mutant_str_list |->
            [kind |-> "dc", var |-> dc[p].name, index |-> i - 1,
             mod_value |-> mutant_str_list[k],
             dc |-> set_value(dc, p, i, mutant_str_list[k])]]
         \o create_mutants_worker(dc, mutant_str_list, fuzzable_param_list,
                                  p, i + 1)

create_mutants(fr, mutant_str_list, fuzzable_param_list) ==
    create_mutants_worker(fr.dc, mutant_str_list, fuzzable_param_list, 1, 1)

\* the sentinel '123'
SENTINEL == <<"1", "2", "3">>

\* mutants = create_mutants(freq, ['123'], False, token.keys())
token_mutants(fr, token) ==
    create_mutants(fr, <<SENTINEL>>, DOMAIN token)

----------------------------------------------------------------------------
(* audit *)

\* Vuln.from_fr('CSRF vulnerability', msg, severity.HIGH, orig_response.id,
\*              self.get_name(), freq)
finding(fr, orig) ==
    [name |-> "CSRF vulnerability", severity |-> "HIGH",
     response_id |-> orig.id, plugin |-> "csrf", freq |-> fr]

\* self.kb_append_uniq(self, 'csrf', v)
kb_append_uniq(base, v) ==
    IF InList(v, base) THEN base ELSE Append(base, v)

----------------------------------------------------------------------------
(* Inputs *)

\* 'www.example.com', 'example.com', '.example.com'
WWW_EXAMPLE_COM ==
    <<"w", "w", "w", ".", "e", "x", "a", "m", "p", "l", "e", ".", "c", "o", "m">>
EXAMPLE_COM == <<"e", "x", "a", "m", "p", "l", "e", ".", "c", "o", "m">>
DOT_EXAMPLE_COM == <<".", "e", "x", "a", "m", "p", "l", "e", ".", "c", "o", "m">>

RequestDomains == {WWW_EXAMPLE_COM, EXAMPLE_COM}
CookieDomains == {WWW_EXAMPLE_COM, DOT_EXAMPLE_COM}

\* 'abc12345XYZ' (a token by entropy), '----' (no digit and no letter),
\* '123' (too short; equal to the sentinel)
V_TOKEN == <<"a", "b", "c", "1", "2", "3", "4", "5", "X", "Y", "Z">>
V_DASHES == <<"-", "-", "-", "-">>
V_123 == <<"1", "2", "3">>

AuditValues == {V_TOKEN, V_DASHES, V_123}
ParamNames == {"token", "foo"}

\* the value lists a parameter can have
ValueLists == SeqsUpTo(AuditValues, MaxVals) \ {<<>>}

\* data containers: at most one entry per parameter name, in any order,
\* holding at most MaxVals values in all
DataContainers ==
    {<<>>}
    \cup {<<[name |-> n, vals |-> v]>> : n \in ParamNames, v \in ValueLists}
    \cup {<<[name |-> n[1], vals |-> v[1]], [name |-> n[2], vals |-> v[2]]>> :
            n \in {<<"token", "foo">>, <<"foo", "token">>},
            v \in {w \in ValueLists \X ValueLists :
                     Len(w[1]) + Len(w[2]) <= MaxVals}}

Requests ==
    [domain : RequestDomains, method : {"GET", "POST"},
     has_query_string : BOOLEAN, dc : DataContainers]

CookieJars == {c \in SUBSET CookieDomains : Cardinality(c) <= MaxCookies}

\* what send_mutant can return
Responses ==
    {[code |-> 200, body |-> "B0"], [code |-> 200, body |-> "B1"],
     [code |-> 200, body |-> "B2"], [code |-> 403, body |-> "B0"]}

NoResponse == [code |-> 0, body |-> "none"]

\* inputs of the classifier: key and value
ClassifierKeys == {"token", "foo"}
ClassifierChars == {"7", "a", "A", " ", "-"}
ClassifierValues ==
    {h \o Repeat(c, n) : h \in SeqsUpTo(ClassifierChars, MaxHead),
                         c \in ClassifierChars, n \in 0..MaxPad}

----------------------------------------------------------------------------
(* One call of audit(freq, orig_response) *)

Init ==
    /\ freq \in Requests
    /\ cookies \in CookieJars
    /\ strict_mode \in BOOLEAN
    /\ orig_response = [id |-> 1, code |-> 200, body |-> "B0"]
    /\ pc = "start"
    /\ exc = "none"
    /\ sent = <<>>
    /\ origin_resp = NoResponse
    /\ located = "no"
    /\ tokens = <<>>
    /\ mutants = <<>>
    /\ token_resps = <<>>
    /\ kb = <<>>
    /\ key_in = ""
    /\ value_in = <<>>
    /\ cls_ret = "unset"

\* audit() up to the first send_mutant: the suitability gate, then the
\* Referer mutant is handed to the sender
audit_start ==
    /\ pc = "start"
    /\ IF ~_is_suitable(freq, cookies, strict_mode)
       THEN /\ pc' = "done"
            /\ sent' = sent
       ELSE /\ pc' = "wait_origin"
            /\ sent' = Append(sent, referer_mutant(freq))
    /\ UNCHANGED <<freq, cookies, strict_mode, orig_response, exc, origin_resp,
                   located, tokens, mutants, token_resps, kb, cls_vars>>

\* send_mutant returns r for the Referer mutant; audit() runs on to its
\* return, to the exception of _find_csrf_token, or to the next send_mutant
origin_answer(r) ==
    /\ pc = "wait_origin"
    /\ origin_resp' = r
    /\ IF _is_origin_checked(orig_response, r)
       THEN /\ pc' = "done"
            /\ UNCHANGED <<exc, sent, located, tokens, mutants, kb>>
       ELSE LET found == _find_csrf_token(freq.dc)
                new_mutants == token_mutants(freq, found.result)
            IN  IF found.raised
                THEN /\ pc' = "raised"
                     /\ exc' = "ValueError"
                     /\ located' = "raised"
                     /\ UNCHANGED <<sent, tokens, mutants, kb>>
                ELSE /\ located' = "returned"
                     /\ tokens' = found.result
                     /\ exc' = exc
                     /\ IF DOMAIN found.result = {} \/ new_mutants = <<>>
                        THEN /\ pc' = "done"
                             /\ mutants' = IF DOMAIN found.result = {}
                                           THEN mutants ELSE new_mutants
                             /\ sent' = sent
                             /\ kb' = kb_append_uniq(kb, finding(freq, orig_response))
                        ELSE /\ pc' = "wait_token"
                             /\ mutants' = new_mutants
                             /\ sent' = Append(sent, new_mutants[1])
                             /\ kb' = kb
    /\ UNCHANGED <<freq, cookies, strict_mode, orig_response, token_resps,
                   cls_vars>>

\* send_mutant raises for the Referer mutant: nothing in audit() catches it
origin_send_fails ==
    /\ pc = "wait_origin"
    /\ pc' = "raised"
    /\ exc' = "sender"
    /\ UNCHANGED <<freq, cookies, strict_mode, orig_response, sent, origin_resp,
                   located, tokens, mutants, token_resps, kb, cls_vars>>

\* send_mutant returns r for a token mutant: _is_token_checked returns True
\* on a response that differs, sends the next mutant otherwise, and returns
\* False after the last one, on which audit() records the finding
token_answer(r) ==
    /\ pc = "wait_token"
    /\ token_resps' = Append(token_resps, r)
    /\ IF ~_is_resp_equal(orig_response, r)
       THEN /\ pc' = "done"
            /\ UNCHANGED <<sent, kb>>
       ELSE IF Len(token_resps) + 1 < Len(mutants)
            THEN /\ pc' = "wait_token"
                 /\ sent' = Append(sent, mutants[Len(token_resps) + 2])
                 /\ kb' = kb
            ELSE /\ pc' = "done"
                 /\ sent' = sent
                 /\ kb' = kb_append_uniq(kb, finding(freq, orig_response))
    /\ UNCHANGED <<freq, cookies, strict_mode, orig_response, exc, origin_resp,
                   located, tokens, mutants, cls_vars>>

\* send_mutant raises for a token mutant
token_send_fails ==
    /\ pc = "wait_token"
    /\ pc' = "raised"
    /\ exc' = "sender"
    /\ UNCHANGED <<freq, cookies, strict_mode, orig_response, sent, origin_resp,
                   located, tokens, mutants, token_resps, kb, cls_vars>>

Next ==
    \/ audit_start
    \/ \E r \in Responses : origin_answer(r)
    \/ origin_send_fails
    \/ \E r \in Responses : token_answer(r)
    \/ token_send_fails

Spec == Init /\ [][Next]_vars

----------------------------------------------------------------------------
(* One call of is_csrf_token(key, value) *)

InitClassifier ==
    /\ key_in \in ClassifierKeys
    /\ value_in \in ClassifierValues
    /\ cls_ret = "unset"
    /\ freq = [domain |-> EXAMPLE_COM, method |-> "GET",
               has_query_string |-> FALSE, dc |-> <<>>]
    /\ cookies = {}
    /\ strict_mode = FALSE
    /\ orig_response = [id |-> 1, code |-> 200, body |-> "B0"]
    /\ pc = "idle"
    /\ exc = "none"
    /\ sent = <<>>
    /\ origin_resp = NoResponse
    /\ located = "no"
    /\ tokens = <<>>
    /\ mutants = <<>>
    /\ token_resps = <<>>
    /\ kb = <<>>

call_is_csrf_token ==
    /\ cls_ret = "unset"
    /\ cls_ret' = is_csrf_token(key_in, value_in)
    /\ UNCHANGED <<key_in, value_in, audit_vars>>

NextClassifier == call_is_csrf_token

SpecClassifier == InitClassifier /\ [][NextClassifier]_vars

----------------------------------------------------------------------------
(* Vocabulary of the properties *)

HasDigit(value) == \E i \in DOMAIN value : value[i] \in DigitChars
HasLower(value) == \E i \in DOMAIN value : value[i] \in LowerChars
HasUpper(value) == \E i \in DOMAIN value : value[i] \in UpperChars
HasSpace(value) == \E i \in DOMAIN value : value[i] = " "
WellKnownName(key) == key \in {"csrf_token", "token", "csrf"}

\* audit() has ended, by return or by an exception
Ended == pc \in {"done", "raised"}

\* the sender answered the Referer mutant, with a response equal / not equal
\* to the original one
OriginEqual ==
    origin_resp # NoResponse /\ _is_resp_equal(orig_response, origin_resp)
OriginDiffers ==
    origin_resp # NoResponse /\ ~_is_resp_equal(orig_response, origin_resp)

\* the positions (from 0) of the values of parameter number p that the
\* classifier accepts
AcceptedAt(dc, p) ==
    {i \in 0..(Len(dc[p].vals) - 1) :
        is_csrf_token(dc[p].name, dc[p].vals[i + 1]) = "True"}

\* the request carries no value the classifier accepts
NoTokenValue(dc) == \A p \in DOMAIN dc : AcceptedAt(dc, p) = {}

\* the (parameter name, value index) places where dc2 differs from dc1
DiffPlaces(dc1, dc2) ==
    UNION {{<<dc1[p].name, j - 1>> :
              j \in {i \in DOMAIN dc1[p].vals :
                       dc1[p].vals[i] # dc2[p].vals[i]}} : p \in DOMAIN dc1}

TheFinding == finding(freq, orig_response)

----------------------------------------------------------------------------
(* Properties *)

\* C1: when audit() has ended and every probe was answered, exactly one
\* finding ('CSRF vulnerability', HIGH, the original request and response id)
\* is recorded if the request is suitable, the Referer probe's response equals
\* the original and (no value is a token or every token probe's response
\* equals the original); otherwise none is recorded.
C1_FindingIffNoDefense ==
    (Ended /\ exc # "sender") =>
        IF /\ _is_suitable(freq, cookies, strict_mode)
           /\ OriginEqual
           /\ \/ NoTokenValue(freq.dc)
              \/ \A k \in DOMAIN token_resps :
                     _is_resp_equal(orig_response, token_resps[k])
        THEN kb = <<TheFinding>>
        ELSE kb = <<>>

\* C2: a failure of the sender on a probe does not leave audit(): the
\* analysis ends normally, suppressed, with no finding.
C2_SenderFailureIsInconclusive ==
    (exc = "sender") => (pc = "done" /\ kb = <<>>)

\* C3: token mutants are sent only after the Referer mutant was sent and
\* answered with a response equal to the original; when that response
\* differs, audit() ends with no finding and without locating or mutating
\* tokens.
C3_OriginGatesTokens ==
    /\ \A i \in DOMAIN sent :
          sent[i].kind = "dc" =>
              /\ i > 1
              /\ sent[1].kind = "headers"
              /\ OriginEqual
    /\ OriginDiffers =>
          /\ pc = "done"
          /\ kb = <<>>
          /\ located = "no"
          /\ mutants = <<>>
          /\ sent = <<referer_mutant(freq)>>

\* C3 witness: a request with a token parameter whose Referer probe came
\* back with status 403
C3_Witness ==
    /\ pc = "done"
    /\ origin_resp.code = 403
    /\ \E p \in DOMAIN freq.dc : freq.dc[p].vals[1] = V_TOKEN
    /\ sent = <<referer_mutant(freq)>>

\* C4: with strict mode off and a payload, the request is suitable (the
\* Referer probe is sent) exactly when some cookie's domain occurs inside the
\* request's domain.
C4_CookieDomainInsideRequestDomain ==
    (pc # "start" /\ ~strict_mode
        /\ (freq.has_query_string \/ freq.dc # <<>>)) =>
        (sent # <<>> <=> \E cookie \in cookies : StrIn(cookie, freq.domain))

\* C5: a request with no query string and no parameters is never suitable;
\* audit() ends at the gate, sending no probe and recording no finding.
C5_NoPayloadNeverSuitable ==
    (~freq.has_query_string /\ freq.dc = <<>>) =>
        /\ ~_is_suitable(freq, cookies, strict_mode)
        /\ pc \in {"start", "done"}
        /\ sent = <<>>
        /\ mutants = <<>>
        /\ kb = <<>>
        /\ exc = "none"

\* C5 witness: such a POST request, with a cookie for its domain and strict
\* mode off, after audit() returned
C5_Witness ==
    /\ ~freq.has_query_string /\ freq.dc = <<>>
    /\ freq.method = "POST" /\ ~strict_mode
    /\ \E cookie \in cookies : StrIn(freq.domain, cookie)
    /\ pc = "done"

\* C6: for a name outside the well-known set and a value of length >= 4 with
\* no digit and no letter, is_csrf_token returns false.
C6_ZeroAlphabetIsNotAToken ==
    (cls_ret # "unset" /\ ~WellKnownName(key_in) /\ Len(value_in) >= 4
        /\ ~HasDigit(value_in) /\ ~HasLower(value_in) /\ ~HasUpper(value_in))
    => cls_ret = "False"

\* C7: for a name outside the well-known set and a value with a digit or a
\* letter, is_csrf_token returns true exactly when the value has at least 4
\* characters, a digit, no space, and at least 11 characters if it has no
\* letter, at least 7 if it has letters (36 bits of entropy); else false.
C7_EntropyRule ==
    (cls_ret # "unset" /\ ~WellKnownName(key_in)
        /\ (HasDigit(value_in) \/ HasLower(value_in) \/ HasUpper(value_in)))
    => cls_ret =
         IF /\ Len(value_in) >= 4
            /\ HasDigit(value_in)
            /\ ~HasSpace(value_in)
            /\ Len(value_in) >=
                 IF HasLower(value_in) \/ HasUpper(value_in) THEN 7 ELSE 11
         THEN "True"
         ELSE "False"

\* C7 witness: the classifier accepted a value of exactly 7 characters, and
\* the value has digits only and 11 characters in another run
C7_Witness ==
    /\ cls_ret = "True"
    /\ ~WellKnownName(key_in)
    /\ \/ Len(value_in) = 7
       \/ Len(value_in) = 11 /\ ~HasLower(value_in) /\ ~HasUpper(value_in)

\* C8 as stated: for every name, a value containing a space is classified
\* false.
C8_SpaceRuleAbsolute ==
    (cls_ret # "unset" /\ HasSpace(value_in)) => cls_ret = "False"

\* C8 amended: for a well-known name every non-empty value is a token, with
\* a space or not; for any other name (or an empty value) a value containing
\* a space is never a token: the result is false, or the fault of C6 when the
\* value has 4 or more characters and no digit or letter.
C8_SpaceRuleOutsideWellKnownNames ==
    (cls_ret # "unset" /\ HasSpace(value_in)) =>
        IF WellKnownName(key_in) /\ value_in # <<>>
        THEN cls_ret = "True"
        ELSE IF Len(value_in) >= 4 /\ ~HasDigit(value_in)
                /\ ~HasLower(value_in) /\ ~HasUpper(value_in)
        THEN cls_ret = "ValueError"
        ELSE cls_ret = "False"

\* C8 witness: a value with a space, a digit and 36 bits of entropy or more
\* under a name outside the well-known set was rejected
C8_Witness ==
    /\ cls_ret = "False"
    /\ ~WellKnownName(key_in)
    /\ HasSpace(value_in) /\ HasDigit(value_in) /\ HasLower(value_in)
    /\ Len(value_in) >= 7

\* C9: _find_csrf_token returns a map with an entry for a parameter exactly
\* when the classifier accepts one of its values; the entry is the single
\* pair (smallest accepted index, the request's value at that index).
C9_FirstMatchPerParameter ==
    (located # "no") =>
        /\ located = "returned"
        /\ \A p \in DOMAIN freq.dc :
              LET name == freq.dc[p].name
                  acc == AcceptedAt(freq.dc, p)
              IN  /\ name \in DOMAIN tokens <=> acc # {}
                  /\ name \in DOMAIN tokens =>
                        \E i \in acc :
                            /\ \A j \in acc : i <= j
                            /\ tokens[name] = (i :> freq.dc[p].vals[i + 1])
        /\ DOMAIN tokens \subseteq {freq.dc[p].name : p \in DOMAIN freq.dc}

\* C10: every request the token validator builds differs from the original
\* in exactly one place, the flagged (name, index) of a token candidate, set
\* to '123'; there is exactly one such request per flagged parameter.
C10_OnlyFlaggedValueMutated ==
    /\ \A k \in DOMAIN mutants :
          /\ mutants[k].var \in DOMAIN tokens
          /\ mutants[k].index \in DOMAIN tokens[mutants[k].var]
          /\ mutants[k].mod_value = SENTINEL
          /\ DiffPlaces(freq.dc, mutants[k].dc)
                = {<<mutants[k].var, mutants[k].index>>}
    /\ (located = "returned" /\ DOMAIN tokens # {}) =>
          \A name \in DOMAIN tokens :
              Cardinality({k \in DOMAIN mutants : mutants[k].var = name}) = 1

====
